---- MODULE Spec2Model ----
(***************************************************************************)
(* FairMed API server (backend/app.py): a Flask service with three routes, *)
(* GET /api/health, POST /api/analyze and POST /api/mitigate, that serve   *)
(* hand-authored bias reports for three scenarios.                         *)
(*                                                                         *)
(* Encoding of values.                                                     *)
(*   - A JSON value of a request body is a pair <<type, text>> with type   *)
(*     one of "string", "boolean", "null", "array".  get_json turns it     *)
(*     into a Python value <<type, text>> with type one of "str", "bool",  *)
(*     "NoneType", "list".                                                 *)
(*   - A request body is a record [kind, fields]; kind is "missing",       *)
(*     "malformed", "null", "array" or "object"; fields maps the keys that *)
(*     are present in the object to their JSON values.                     *)
(*   - Python floats are kept as scaled integers: overall_score and        *)
(*     bias_score_change in tenths (45.2 is 452); rates, fairness metrics, *)
(*     flag values and accuracy_disparity_reduction in hundredths          *)
(*     (0.90 is 90).                                                       *)
(*   - A Python dict is a function from its keys; a Python list is a       *)
(*     sequence.                                                           *)
(***************************************************************************)
EXTENDS Integers, Sequences, FiniteSets, TLC

\* Length of the log of exchanges an observing client keeps.
MaxLog == 2
\* Number of requests the server handles at the same time.
NumWorkers == 2

VARIABLES
    log,        \* exchanges the observing client recorded, oldest first
    faulted,    \* TRUE once some request of this process was answered 500
    pc,         \* pc[w]: the line worker w's handler is about to execute
    request,    \* request[w]: Flask's context-local request of worker w
    locals,     \* locals[w]: local variables of the handler call of worker w
    response    \* response[w]: what the handler call of worker w returned

vars == <<log, faulted, pc, request, locals, response>>

Workers == 1..NumWorkers

\* Python's None, as the value of a report field.
None == "None"
\* JSON's null, as the value of a field of a response body.
JsonNull == "null"

Group(name, n, acc, tpr, fpr, prec, tn, fp, fn, tp) ==
    [group |-> name, sample_size |-> n, accuracy |-> acc, tpr |-> tpr,
     fpr |-> fpr, precision |-> prec,
     confusion_matrix |-> [tn |-> tn, fp |-> fp, fn |-> fn, tp |-> tp]]

\* Metrics with the two equalized-odds values under each other's key.
MetricsSwapped(sp, eotpr, eofpr, pp) ==
    [statistical_parity |-> sp, equalized_odds_tpr |-> eofpr,
     equalized_odds_fpr |-> eotpr, predictive_parity |-> pp]

Metrics(sp, eotpr, eofpr, pp) ==
    [statistical_parity |-> sp, equalized_odds_tpr |-> eotpr,
     equalized_odds_fpr |-> eofpr, predictive_parity |-> pp]

Flag(type, severity, message, value) ==
    [type |-> type, severity |-> severity, message |-> message, value |-> value]

Recommendation(priority, title, description, improvement, cost, timeline) ==
    [priority |-> priority, title |-> title, description |-> description,
     expected_improvement |-> improvement, implementation_cost |-> cost,
     timeline |-> timeline]

Improvement(change, reduction, message) ==
    [bias_score_change |-> change, accuracy_disparity_reduction |-> reduction,
     message |-> message]

load_dermatology_scenario ==
    [scenario |-> "dermatology",
     title |-> "Melanoma Detection AI - Skin Tone Bias",
     description |-> "AI model trained primarily on light skin (Fitzpatrick I-III) showing significant accuracy disparities",
     overall_score |-> 452,
     groups |->
        ("Light Skin (I-III)" :> Group("Light Skin (I-III)", 700, 90, 92, 8, 89, 322, 28, 24, 326))
     @@ ("Medium Skin (IV)" :> Group("Medium Skin (IV)", 200, 76, 78, 24, 74, 76, 24, 22, 78))
     @@ ("Dark Skin (V-VI)" :> Group("Dark Skin (V-VI)", 100, 60, 62, 38, 58, 31, 19, 19, 31)),
     metrics |-> Metrics(30, 30, 30, 31),
     flags |-> << Flag("accuracy_disparity", "high", "Accuracy varies by 30.0% across skin tones (threshold: 5%)", 30),
                  Flag("tpr_disparity", "high", "True Positive Rate varies by 30.0% across skin tones", 30),
                  Flag("precision_disparity", "high", "Precision varies by 31.0% across skin tones", 31) >>,
     recommendations |->
        << Recommendation("high", "Augment Training Data", "Add synthetic images of melanoma on darker skin tones (Fitzpatrick V-VI)", 35, "€15,000", "2-3 weeks"),
           Recommendation("high", "Apply Adversarial Debiasing", "Retrain model with dual objectives: accuracy + fairness across skin tones", 40, "€8,000", "1-2 weeks"),
           Recommendation("medium", "Adjust Decision Thresholds", "Use group-specific thresholds to equalize sensitivity across skin tones", 25, "€2,000", "3-5 days") >>,
     mitigated_results |-> None]

load_cardiovascular_scenario ==
    [scenario |-> "cardiovascular",
     title |-> "Cardiovascular Disease Predictor - Gender Bias",
     description |-> "AI model undertrained on female patients, leading to underdiagnosis",
     overall_score |-> 620,
     groups |->
        ("Male" :> Group("Male", 700, 85, 87, 13, 84, 305, 45, 45, 305))
     @@ ("Female" :> Group("Female", 300, 72, 70, 28, 68, 108, 42, 42, 108)),
     metrics |-> Metrics(13, 17, 15, 16),
     flags |-> << Flag("accuracy_disparity", "high", "Accuracy varies by 13.0% between genders (threshold: 5%)", 13) >>,
     recommendations |->
        << Recommendation("high", "Balance Training Dataset", "Increase female patient representation to 50%", 30, "€12,000", "3-4 weeks") >>,
     mitigated_results |-> None]

load_pain_scenario ==
    [scenario |-> "pain",
     title |-> "Pain Management Algorithm - Age Bias",
     description |-> "AI uses age as proxy for pain tolerance, undertreating elderly patients",
     overall_score |-> 585,
     groups |->
        ("Age 18-40" :> Group("Age 18-40", 400, 82, 84, 16, 81, 168, 32, 32, 168))
     @@ ("Age 41-64" :> Group("Age 41-64", 350, 78, 76, 22, 74, 137, 38, 42, 133))
     @@ ("Age 65+" :> Group("Age 65+", 250, 68, 65, 32, 67, 85, 40, 44, 81)),
     metrics |-> Metrics(14, 19, 16, 14),
     flags |-> << Flag("accuracy_disparity", "high", "Accuracy varies by 14.0% across age groups (threshold: 5%)", 14) >>,
     recommendations |->
        << Recommendation("high", "Remove Age as Direct Feature", "Eliminate age-based assumptions about pain tolerance", 35, "€5,000", "1-2 weeks") >>,
     mitigated_results |-> None]

get_mitigated_dermatology_results ==
    [scenario |-> "dermatology",
     title |-> "Melanoma Detection AI - After Mitigation",
     description |-> "After applying adversarial debiasing and data augmentation",
     overall_score |-> 873,
     groups |->
        ("Light Skin (I-III)" :> Group("Light Skin (I-III)", 700, 87, 88, 12, 86, 308, 42, 42, 308))
     @@ ("Medium Skin (IV)" :> Group("Medium Skin (IV)", 200, 85, 86, 14, 84, 86, 14, 14, 86))
     @@ ("Dark Skin (V-VI)" :> Group("Dark Skin (V-VI)", 100, 84, 85, 15, 83, 43, 7, 8, 42)),
     metrics |-> Metrics(3, 3, 3, 3),
     flags |-> << >>,
     improvement |-> Improvement(421, 27, "Bias reduced by 90% - now within acceptable thresholds")]

\* get_mitigated_cardiovascular_results with one count mistyped (194 for 294).
get_mitigated_cardiovascular_results_typo ==
    [scenario |-> "cardiovascular",
     title |-> "Cardiovascular Disease Predictor - After Mitigation",
     overall_score |-> 920,
     groups |->
        ("Male" :> Group("Male", 700, 83, 84, 16, 82, 194, 56, 56, 294))
     @@ ("Female" :> Group("Female", 300, 81, 82, 18, 80, 123, 27, 27, 123)),
     metrics |-> Metrics(2, 2, 2, 2),
     flags |-> << >>,
     improvement |-> Improvement(300, 11, "Gender bias eliminated - equitable performance achieved")]

get_mitigated_cardiovascular_results ==
    [scenario |-> "cardiovascular",
     title |-> "Cardiovascular Disease Predictor - After Mitigation",
     overall_score |-> 920,
     groups |->
        ("Male" :> Group("Male", 700, 83, 84, 16, 82, 294, 56, 56, 294))
     @@ ("Female" :> Group("Female", 300, 81, 82, 18, 80, 123, 27, 27, 123)),
     metrics |-> Metrics(2, 2, 2, 2),
     flags |-> << >>,
     improvement |-> Improvement(300, 11, "Gender bias eliminated - equitable performance achieved")]

get_mitigated_pain_results ==
    [scenario |-> "pain",
     title |-> "Pain Management Algorithm - After Mitigation",
     overall_score |-> 887,
     groups |->
        ("Age 18-40" :> Group("Age 18-40", 400, 80, 81, 19, 79, 162, 38, 38, 162))
     @@ ("Age 41-64" :> Group("Age 41-64", 350, 79, 80, 20, 78, 140, 35, 35, 140))
     @@ ("Age 65+" :> Group("Age 65+", 250, 78, 79, 21, 77, 99, 26, 26, 99)),
     metrics |-> Metrics(2, 2, 2, 2),
     flags |-> << >>,
     improvement |-> Improvement(302, 12, "Age bias eliminated - fair pain assessment across all ages")]

(***************************************************************************)
(* Values                                                                  *)
(***************************************************************************)
Str(s) == <<"str", s>>
PyTrue == <<"bool", "True">>
PyFalse == <<"bool", "False">>
PyNone == <<"NoneType", "None">>
PyEmptyList == <<"list", "[]">>

NoItems == [k \in {} |-> PyNone]

\* json.loads on one JSON value.
FromJson(j) ==
    CASE j[1] = "string"  -> Str(j[2])
      [] j[1] = "boolean" -> IF j[2] = "true" THEN PyTrue ELSE PyFalse
      [] j[1] = "null"    -> PyNone
      [] j[1] = "array"   -> PyEmptyList

\* Python's truth value of v, as `if use_sample:` takes it.
Truthy(v) ==
    CASE v[1] = "bool"     -> v = PyTrue
      [] v[1] = "str"      -> v[2] # ""
      [] v[1] = "NoneType" -> FALSE
      [] v[1] = "list"     -> v[2] # "[]"
      [] OTHER             -> FALSE

\* hash(v) succeeds: lists cannot be looked up in a dict.
Hashable(v) == v[1] # "list"

Raise(e) == [raised |-> TRUE, exc |-> e, value |-> PyNone]
Return(v) == [raised |-> FALSE, exc |-> "", value |-> v]

\* request.get_json(): the parsed body, or the exception it raises.  The
\* value is [type, items]: the Python type of the parsed document and, for a
\* dict, its items.  A request without a JSON body raises 415 (Flask 2.1 and
\* later; earlier versions return None, the path of the body "null"); a body
\* that does not parse raises 400 with the text the debug server gives it.
get_json(body) ==
    CASE body.kind = "missing" ->
            Raise("415 Unsupported Media Type: Did not attempt to load JSON data because the request Content-Type was not 'application/json'.")
      [] body.kind = "malformed" ->
            Raise("400 Bad Request: Failed to decode JSON object")
      [] body.kind = "null" -> Return([type |-> "NoneType", items |-> NoItems])
      [] body.kind = "array" -> Return([type |-> "list", items |-> NoItems])
      [] body.kind = "object" ->
            Return([type |-> "dict",
                    items |-> [k \in DOMAIN body.fields |-> FromJson(body.fields[k])]])

\* data.get(key, default): only a dict has the method.
dict_get(data, key, default) ==
    IF data.type # "dict"
    THEN Raise("'" \o data.type \o "' object has no attribute 'get'")
    ELSE IF key \in DOMAIN data.items THEN Return(data.items[key])
         ELSE Return(default)

\* jsonify(d): the JSON document of a dict; None becomes null.
jsonify(d) ==
    [k \in DOMAIN d |->
        IF k = "mitigated_results" /\ d[k] = None THEN JsonNull ELSE d[k]]

Response(status, body) == [status |-> status, body |-> body]
NoResponse == Response(0, [pending |-> TRUE])

(***************************************************************************)
(* Handlers.  A handler call is (pc, request, locals); each operator below *)
(* executes the line pc names and gives the next pc, the locals and, once  *)
(* pc is "done", the response.                                             *)
(***************************************************************************)
Unbound == <<"unbound", "">>
NewLocals ==
    [data |-> [type |-> "unbound", items |-> NoItems],
     scenario |-> Unbound, use_sample |-> Unbound, e |-> ""]

Goto(p, loc) == [pc |-> p, loc |-> loc, response |-> NoResponse]
Respond(loc, resp) == [pc |-> "done", loc |-> loc, response |-> resp]

\* `key in table`, for a table whose keys are strings.
In(key, table) == key[1] = "str" /\ key[2] \in DOMAIN table

\* scenario_loaders with the loader of another scenario under 'pain'.
scenario_loaders_swapped ==
       ("dermatology" :> load_dermatology_scenario)
    @@ ("cardiovascular" :> load_cardiovascular_scenario)
    @@ ("pain" :> load_cardiovascular_scenario)

scenario_loaders ==
       ("dermatology" :> load_dermatology_scenario)
    @@ ("cardiovascular" :> load_cardiovascular_scenario)
    @@ ("pain" :> load_pain_scenario)

\* mitigation_results with the baseline loader under 'pain'.
mitigation_results_baseline ==
       ("dermatology" :> get_mitigated_dermatology_results)
    @@ ("cardiovascular" :> get_mitigated_cardiovascular_results)
    @@ ("pain" :> load_pain_scenario)

mitigation_results ==
       ("dermatology" :> get_mitigated_dermatology_results)
    @@ ("cardiovascular" :> get_mitigated_cardiovascular_results)
    @@ ("pain" :> get_mitigated_pain_results)

\* scenario_lookup without the membership test: return jsonify(table[scenario]())
scenario_lookup_unchecked(scenario, table) ==
    IF ~Hashable(scenario)
    THEN Raise("unhashable type: '" \o scenario[1] \o "'")
    ELSE IF In(scenario, table)
         THEN Return(Response(200, jsonify(table[scenario[2]])))
         ELSE Raise("'" \o scenario[2] \o "'")

\* if scenario in table: return jsonify(table[scenario]())
\* else: return jsonify({'error': 'Invalid scenario'}), 400
scenario_lookup(scenario, table) ==
    IF ~Hashable(scenario)
    THEN Raise("unhashable type: '" \o scenario[1] \o "'")
    ELSE IF In(scenario, table)
         THEN Return(Response(200, jsonify(table[scenario[2]])))
         ELSE Return(Response(400, [error |-> "Invalid scenario"]))

\* analyze_branch that validates the scenario before it looks at use_sample.
analyze_branch_lookup_first(scenario, use_sample) ==
    LET r == scenario_lookup(scenario, scenario_loaders) IN
    IF r.raised \/ r.value.status # 200 THEN r
    ELSE IF Truthy(use_sample) THEN r
         ELSE Return(Response(501, [error |-> "File upload not yet implemented"]))

\* if use_sample: ... else: return ..., 501
analyze_branch(scenario, use_sample) ==
    IF Truthy(use_sample)
    THEN scenario_lookup(scenario, scenario_loaders)
    ELSE Return(Response(501, [error |-> "File upload not yet implemented"]))

\* except_handler that catches nothing (except ValueError): the exception
\* leaves the view and Flask answers with its own error page.
except_handler_reraise(e) == Response(500, [html |-> "Internal Server Error"])

\* except Exception as e: return jsonify({'error': str(e)}), 500
except_handler(e) == Response(500, [error |-> e])

\* A default scenario other than 'dermatology'.
MitigateDefaultScenarioWrong == Str("cardiovascular")

AnalyzeDefaultScenario == Str("dermatology")
AnalyzeDefaultUseSample == PyTrue
MitigateDefaultScenario == Str("dermatology")

\* health_check that reports earlier failures of the process.
health_check_degraded(p, req, loc) ==
    Respond(loc, Response(200, [status |-> IF faulted THEN "degraded" ELSE "healthy",
                                message |-> "FairMed API is running"]))

health_check(p, req, loc) ==
    Respond(loc, Response(200, [status |-> "healthy", message |-> "FairMed API is running"]))

analyze_bias(p, req, loc) ==
    CASE p = "L57" ->
            LET r == get_json(req.body) IN
            IF r.raised THEN Goto("L80", [loc EXCEPT !.e = r.exc])
            ELSE Goto("L58", [loc EXCEPT !.data = r.value])
      [] p = "L58" ->
            LET r == dict_get(loc.data, "scenario", AnalyzeDefaultScenario) IN
            IF r.raised THEN Goto("L80", [loc EXCEPT !.e = r.exc])
            ELSE Goto("L59", [loc EXCEPT !.scenario = r.value])
      [] p = "L59" ->
            LET r == dict_get(loc.data, "use_sample", AnalyzeDefaultUseSample) IN
            IF r.raised THEN Goto("L80", [loc EXCEPT !.e = r.exc])
            ELSE Goto("L61", [loc EXCEPT !.use_sample = r.value])
      [] p = "L61" ->
            LET r == analyze_branch(loc.scenario, loc.use_sample) IN
            IF r.raised THEN Goto("L80", [loc EXCEPT !.e = r.exc])
            ELSE Respond(loc, r.value)
      [] p = "L80" -> Respond(loc, except_handler(loc.e))

\* apply_mitigation that reads 'mitigation' and accepts one strategy only.
apply_mitigation_by_strategy(p, req, loc) ==
    CASE p = "L379" ->
            LET r == get_json(req.body) IN
            IF r.raised THEN Goto("L395", [loc EXCEPT !.e = r.exc])
            ELSE Goto("L380", [loc EXCEPT !.data = r.value])
      [] p = "L380" ->
            LET r == dict_get(loc.data, "scenario", MitigateDefaultScenario) IN
            IF r.raised THEN Goto("L395", [loc EXCEPT !.e = r.exc])
            ELSE Goto("L383", [loc EXCEPT !.scenario = r.value])
      [] p = "L383" ->
            LET m == dict_get(loc.data, "mitigation", Str("adversarial_debiasing"))
                r == scenario_lookup(loc.scenario, mitigation_results) IN
            IF r.raised THEN Goto("L395", [loc EXCEPT !.e = r.exc])
            ELSE IF m.value # Str("adversarial_debiasing")
                 THEN Respond(loc, Response(400, [error |-> "Invalid mitigation"]))
                 ELSE Respond(loc, r.value)
      [] p = "L395" -> Respond(loc, except_handler(loc.e))

apply_mitigation(p, req, loc) ==
    CASE p = "L379" ->
            LET r == get_json(req.body) IN
            IF r.raised THEN Goto("L395", [loc EXCEPT !.e = r.exc])
            ELSE Goto("L380", [loc EXCEPT !.data = r.value])
      [] p = "L380" ->
            LET r == dict_get(loc.data, "scenario", MitigateDefaultScenario) IN
            IF r.raised THEN Goto("L395", [loc EXCEPT !.e = r.exc])
            ELSE Goto("L383", [loc EXCEPT !.scenario = r.value])
      [] p = "L383" ->
            LET r == scenario_lookup(loc.scenario, mitigation_results) IN
            IF r.raised THEN Goto("L395", [loc EXCEPT !.e = r.exc])
            ELSE Respond(loc, r.value)
      [] p = "L395" -> Respond(loc, except_handler(loc.e))

\* The route table of the application: the first line of each view.
Entry(route) ==
    CASE route = "health" -> "L30"
      [] route = "analyze" -> "L57"
      [] route = "mitigate" -> "L379"

\* One line of the view the request is routed to.
Handler(p, req, loc) ==
    CASE req.route = "health" -> health_check(p, req, loc)
      [] req.route = "analyze" -> analyze_bias(p, req, loc)
      [] req.route = "mitigate" -> apply_mitigation(p, req, loc)

\* The view run from its first line to its return, with nothing in between.
RECURSIVE Run(_, _)
Run(st, req) ==
    IF st.pc = "done" THEN st.response
    ELSE Run(Handler(st.pc, req, st.loc), req)

ServedAlone(req) == Run(Goto(Entry(req.route), NewLocals), req)

(***************************************************************************)
(* Requests a client can send.                                             *)
(***************************************************************************)
JStr(s) == <<"string", s>>
JTrue == <<"boolean", "true">>
JFalse == <<"boolean", "false">>
JNull == <<"null", "null">>
JArray == <<"array", "[]">>
Absent == <<"absent", "">>

NoFields == [k \in {} |-> JNull]
Field(k, v) == IF v = Absent THEN NoFields ELSE (k :> v)

Scenarios == {"dermatology", "cardiovascular", "pain"}

\* A body that is a JSON object with the given (or absent) fields.
Object(scenario, use_sample, mitigation) ==
    [kind |-> "object",
     fields |-> Field("scenario", scenario) @@ Field("use_sample", use_sample)
                @@ Field("mitigation", mitigation)]
\* A body that is absent, not JSON, or JSON but not an object.
NonObject(kind) == [kind |-> kind, fields |-> NoFields]

ScenarioInputs ==
    {Absent, JArray} \cup {JStr(s) : s \in Scenarios \cup {"oncology"}}
UseSampleInputs == {Absent, JTrue, JFalse}
MitigationInputs == {Absent, JStr("reweighting"), JStr("adversarial_debiasing")}
NonObjectBodies == {NonObject(k) : k \in {"missing", "malformed", "null", "array"}}

AnalyzeBodies ==
    NonObjectBodies \cup
    {Object(s, u, Absent) : s \in ScenarioInputs, u \in UseSampleInputs}
MitigateBodies ==
    NonObjectBodies \cup
    {Object(s, Absent, m) : s \in ScenarioInputs, m \in MitigationInputs}

Req(route, body) == [route |-> route, body |-> body]
NoRequest == Req("none", NonObject("missing"))

\* Requests sent while other requests are being handled: one per path
\* through each view.
ConcRequests ==
    { Req("health", NonObject("missing")),
      Req("analyze", NonObject("null")),
      Req("analyze", Object(Absent, Absent, Absent)),
      Req("analyze", Object(JStr("cardiovascular"), Absent, Absent)),
      Req("analyze", Object(JStr("pain"), JTrue, Absent)),
      Req("analyze", Object(JStr("oncology"), Absent, Absent)),
      Req("analyze", Object(JStr("dermatology"), JFalse, Absent)),
      Req("analyze", Object(JArray, Absent, Absent)),
      Req("mitigate", NonObject("malformed")),
      Req("mitigate", Object(Absent, Absent, Absent)),
      Req("mitigate", Object(JStr("pain"), Absent, JStr("reweighting"))),
      Req("mitigate", Object(JStr("oncology"), Absent, Absent)),
      Req("mitigate", Object(JArray, Absent, Absent)) }

(***************************************************************************)
(* The service, one request at a time: the client sends a request, the     *)
(* view runs to its return, and the client may write the exchange down.    *)
(* The observation ends when the client's log is full.                     *)
(***************************************************************************)
Init ==
    /\ log = << >>
    /\ faulted = FALSE
    /\ pc = [w \in Workers |-> "idle"]
    /\ request = [w \in Workers |-> NoRequest]
    /\ locals = [w \in Workers |-> NewLocals]
    /\ response = [w \in Workers |-> NoResponse]

Serve(req, keep) ==
    LET resp == ServedAlone(req) IN
    /\ Len(log) < MaxLog
    /\ log' = IF keep
              THEN Append(log, [request |-> req, response |-> resp,
                                after_fault |-> faulted])
              ELSE log
    /\ faulted' = (faulted \/ resp.status = 500)
    /\ UNCHANGED <<pc, request, locals, response>>

HealthCheck(keep) == Serve(Req("health", NonObject("missing")), keep)
AnalyzeBias(body, keep) == Serve(Req("analyze", body), keep)
ApplyMitigation(body, keep) == Serve(Req("mitigate", body), keep)

Next ==
    \E keep \in BOOLEAN :
        \/ HealthCheck(keep)
        \/ \E body \in AnalyzeBodies : AnalyzeBias(body, keep)
        \/ \E body \in MitigateBodies : ApplyMitigation(body, keep)

Spec == Init /\ [][Next]_vars

(***************************************************************************)
(* The service with NumWorkers requests in progress at once, the lines of  *)
(* their views interleaved in any order.                                   *)
(***************************************************************************)
\* One frame for all workers: the locals kept as module-level globals.
FrameShared(w) == 1

\* The frame that holds the local variables of worker w's handler call.
FrameOf(w) == w

Accept(w, req) ==
    /\ pc[w] = "idle"
    /\ pc' = [pc EXCEPT ![w] = Entry(req.route)]
    /\ request' = [request EXCEPT ![w] = req]
    /\ locals' = [locals EXCEPT ![FrameOf(w)] = NewLocals]
    /\ response' = [response EXCEPT ![w] = NoResponse]
    /\ UNCHANGED <<log, faulted>>

\* Worker w executes one line; the frame is gone once the view returns.
Step(w) ==
    /\ pc[w] \notin {"idle", "done"}
    /\ LET st == Handler(pc[w], request[w], locals[FrameOf(w)]) IN
        /\ pc' = [pc EXCEPT ![w] = st.pc]
        /\ locals' = [locals EXCEPT ![FrameOf(w)] =
                         IF st.pc = "done" THEN NewLocals ELSE st.loc]
        /\ response' = [response EXCEPT ![w] = st.response]
    /\ UNCHANGED <<log, faulted, request>>

\* The response of worker w is sent; the worker is free again.
Reply(w) ==
    /\ pc[w] = "done"
    /\ pc' = [pc EXCEPT ![w] = "idle"]
    /\ request' = [request EXCEPT ![w] = NoRequest]
    /\ response' = [response EXCEPT ![w] = NoResponse]
    /\ UNCHANGED <<log, faulted, locals>>

ConcNext ==
    \E w \in Workers :
        \/ \E req \in ConcRequests : Accept(w, req)
        \/ Step(w)
        \/ Reply(w)

ConcSpec == Init /\ [][ConcNext]_vars

(***************************************************************************)
(* Properties                                                              *)
(***************************************************************************)
IsObject(req) == req.body.kind = "object"
Has(req, k) == IsObject(req) /\ k \in DOMAIN req.body.fields
FieldOf(req, k) == IF Has(req, k) THEN req.body.fields[k] ELSE Absent

\* The request names one of the three scenarios / a string that is none of them.
NamesScenario(req, s) == FieldOf(req, "scenario") = JStr(s)
NamesUnknownScenario(req) ==
    /\ Has(req, "scenario")
    /\ FieldOf(req, "scenario")[1] = "string"
    /\ FieldOf(req, "scenario")[2] \notin Scenarios

IsReport(resp) == resp.status = 200 /\ "groups" \in DOMAIN resp.body
InvalidScenario(resp) ==
    resp.status = 400 /\ resp.body = [error |-> "Invalid scenario"]
NotImplemented(resp) ==
    resp.status = 501 /\ resp.body = [error |-> "File upload not yet implemented"]

\* C1: POST /analyze with an object body naming a valid scenario s, use_sample
\* omitted or true, answers 200 with the baseline report of s: its scenario
\* field is s and its mitigated_results is null; whatever was served before,
\* earlier /mitigate calls for s included.
C1_AnalyzeReturnsBaseline ==
    \A i \in DOMAIN log : \A s \in Scenarios :
        LET x == log[i] IN
        (/\ x.request.route = "analyze"
         /\ NamesScenario(x.request, s)
         /\ FieldOf(x.request, "use_sample") \in {Absent, JTrue})
        => /\ IsReport(x.response)
           /\ x.response.body.scenario = s
           /\ "recommendations" \in DOMAIN x.response.body
           /\ "mitigated_results" \in DOMAIN x.response.body
           /\ x.response.body.mitigated_results = JsonNull

\* A /mitigate for pain was answered with a report, and the /analyze for pain
\* that followed it has been answered.
C1_Witness ==
    /\ Len(log) = 2
    /\ log[1].request.route = "mitigate" /\ NamesScenario(log[1].request, "pain")
    /\ IsReport(log[1].response)
    /\ log[2].request.route = "analyze" /\ NamesScenario(log[2].request, "pain")
    /\ FieldOf(log[2].request, "use_sample") = Absent
    /\ log[2].response.status = 200

\* C2: the report of POST /mitigate for s has an overall_score strictly
\* greater than that of the baseline report of POST /analyze for s, and its
\* flags sequence is empty.
C2_MitigationImproves ==
    \A j \in DOMAIN log :
        (log[j].request.route = "mitigate" /\ log[j].response.status = 200)
        => /\ log[j].response.body.flags = << >>
           /\ \A i \in DOMAIN log :
                (/\ log[i].request.route = "analyze"
                 /\ IsReport(log[i].response)
                 /\ log[i].response.body.scenario = log[j].response.body.scenario)
                => log[j].response.body.overall_score
                     > log[i].response.body.overall_score

\* The baseline and the mitigated report of one scenario are both in the log.
C2_Witness ==
    \E i, j \in DOMAIN log :
        /\ log[i].request.route = "analyze" /\ IsReport(log[i].response)
        /\ log[j].request.route = "mitigate" /\ IsReport(log[j].response)
        /\ log[i].response.body.scenario = "pain"
        /\ log[j].response.body.scenario = "pain"

\* C3 as stated: an object body whose scenario is a string outside the three
\* is answered 400 'Invalid scenario' by /analyze and by /mitigate, whatever
\* the other fields are.
C3_Original ==
    \A i \in DOMAIN log :
        (/\ log[i].request.route \in {"analyze", "mitigate"}
         /\ NamesUnknownScenario(log[i].request))
        => InvalidScenario(log[i].response)

\* C3 as amended: /mitigate answers such a body 400 'Invalid scenario'
\* always; /analyze does so when use_sample is omitted or true, and answers
\* 501 when use_sample is false.
C3_UnknownScenarioRejected ==
    \A i \in DOMAIN log :
        LET x == log[i] IN
        NamesUnknownScenario(x.request) =>
            /\ x.request.route = "mitigate" => InvalidScenario(x.response)
            /\ (x.request.route = "analyze"
                 /\ FieldOf(x.request, "use_sample") \in {Absent, JTrue})
               => InvalidScenario(x.response)
            /\ (x.request.route = "analyze"
                 /\ FieldOf(x.request, "use_sample") = JFalse)
               => NotImplemented(x.response)

\* Both routes have answered a request for "oncology".
C3_Witness ==
    \E i, j \in DOMAIN log :
        /\ log[i].request.route = "analyze" /\ NamesScenario(log[i].request, "oncology")
        /\ log[j].request.route = "mitigate" /\ NamesScenario(log[j].request, "oncology")
        /\ log[i].response.status = 400 /\ log[j].response.status = 400

\* C4: POST /analyze with an object body whose use_sample is false answers
\* 501 and no report, whether scenario is valid, unrecognized, unusable as a
\* key, or absent.
C4_NoSampleNotImplemented ==
    \A i \in DOMAIN log :
        (/\ log[i].request.route = "analyze"
         /\ FieldOf(log[i].request, "use_sample") = JFalse)
        => NotImplemented(log[i].response)

\* use_sample false was answered 501 both with a valid scenario and with no
\* scenario at all.
C4_Witness ==
    \E i, j \in DOMAIN log :
        /\ log[i].request = Req("analyze", Object(JStr("cardiovascular"), JFalse, Absent))
        /\ log[j].request = Req("analyze", Object(Absent, JFalse, Absent))
        /\ log[i].response.status = 501 /\ log[j].response.status = 501

\* The request makes the view raise: the body is not a JSON object, or the
\* scenario is a list and the lookup is reached.
Faulty(req) ==
    /\ req.route \in {"analyze", "mitigate"}
    /\ \/ ~IsObject(req)
       \/ /\ FieldOf(req, "scenario") = JArray
          /\ req.route = "analyze" => FieldOf(req, "use_sample") # JFalse

\* str(e) of the exception the request makes the view raise.
FaultDescription(req) ==
    CASE req.body.kind = "missing" ->
            "415 Unsupported Media Type: Did not attempt to load JSON data because the request Content-Type was not 'application/json'."
      [] req.body.kind = "malformed" -> "400 Bad Request: Failed to decode JSON object"
      [] req.body.kind = "null" -> "'NoneType' object has no attribute 'get'"
      [] req.body.kind = "array" -> "'list' object has no attribute 'get'"
      [] req.body.kind = "object" -> "unhashable type: 'list'"

\* C5: a fault raised while /analyze or /mitigate parses the body or looks
\* the scenario up is answered 500 with the body {'error': description of the
\* fault}, and a request served after a fault is answered as the same
\* request was before any fault.
C5_FaultsAnswered500 ==
    /\ \A i \in DOMAIN log :
          Faulty(log[i].request) =>
            /\ log[i].response.status = 500
            /\ DOMAIN log[i].response.body = {"error"}
            /\ log[i].response.body.error = FaultDescription(log[i].request)
    /\ \A i, j \in DOMAIN log :
          (/\ log[i].request = log[j].request
           /\ ~log[i].after_fault /\ log[j].after_fault)
          => log[i].response = log[j].response

\* A faulty request was answered 500 and the request after it got a report.
C5_Witness ==
    /\ Len(log) = 2
    /\ Faulty(log[1].request) /\ log[1].response.status = 500
    /\ log[2].after_fault /\ IsReport(log[2].response)

\* C6: the response is a function of the request alone: two exchanges of
\* the log with the same request have the same status and body, whatever was
\* served before each.
C6_Stateless ==
    \A i, j \in DOMAIN log :
        log[i].request = log[j].request => log[i].response = log[j].response

\* The same /analyze request was answered twice with a report, once before
\* and once after some request had failed.
C6_Witness ==
    /\ Len(log) = 2
    /\ log[1].request = log[2].request
    /\ log[1].request.route = "analyze" /\ IsReport(log[2].response)
    /\ ~log[1].after_fault /\ log[2].after_fault

\* C7: with the lines of several views interleaved, every request gets the
\* response it gets when it is served alone.
C7_InterleavingInvisible ==
    \A w \in Workers :
        pc[w] = "done" => response[w] = ServedAlone(request[w])

\* Worker 1 has returned a report while worker 2 is in the middle of a view.
C7_Witness ==
    /\ pc[1] = "done" /\ IsReport(response[1])
    /\ pc[2] \in {"L59", "L61", "L383"}
    /\ request[1] # request[2]

Without(f, k) == [x \in DOMAIN f \ {k} |-> f[x]]
With(f, k, v) == [x \in DOMAIN f \cup {k} |-> IF x = k THEN v ELSE f[x]]

\* C8: two /mitigate requests whose bodies differ only in the value or the
\* presence of 'mitigation' get the same status and body.
C8_MitigationIgnored ==
    \A i, j \in DOMAIN log :
        (/\ log[i].request.route = "mitigate" /\ log[j].request.route = "mitigate"
         /\ IsObject(log[i].request) /\ IsObject(log[j].request)
         /\ Without(log[i].request.body.fields, "mitigation")
              = Without(log[j].request.body.fields, "mitigation"))
        => log[i].response = log[j].response

\* /mitigate for pain was answered with and without a 'mitigation' field.
C8_Witness ==
    \E i, j \in DOMAIN log :
        /\ log[i].request = Req("mitigate", Object(JStr("pain"), Absent, Absent))
        /\ log[j].request = Req("mitigate", Object(JStr("pain"), Absent, JStr("reweighting")))
        /\ IsReport(log[i].response) /\ IsReport(log[j].response)

\* C9: a body without 'scenario' is answered as the same body with scenario
\* dermatology, by /analyze and by /mitigate; a body without 'use_sample' is
\* answered by /analyze as the same body with use_sample true.
C9_Defaults ==
    \A i, j \in DOMAIN log :
        LET a == log[i].request
            b == log[j].request IN
        (a.route = b.route /\ IsObject(a) /\ IsObject(b)) =>
            /\ (/\ a.route \in {"analyze", "mitigate"}
                /\ ~Has(a, "scenario")
                /\ b.body.fields = With(a.body.fields, "scenario", JStr("dermatology")))
               => log[i].response = log[j].response
            /\ (/\ a.route = "analyze"
                /\ ~Has(a, "use_sample")
                /\ b.body.fields = With(a.body.fields, "use_sample", JTrue))
               => log[i].response = log[j].response

\* /mitigate was answered for the empty object and for scenario dermatology.
C9_Witness ==
    \E i, j \in DOMAIN log :
        /\ log[i].request = Req("mitigate", Object(Absent, Absent, Absent))
        /\ log[j].request = Req("mitigate", Object(JStr("dermatology"), Absent, Absent))
        /\ IsReport(log[i].response) /\ IsReport(log[j].response)

\* C10: in every report served, every group's tn, fp, fn, tp are
\* non-negative integers that sum to its sample_size, a positive integer.
C10_ConfusionMatrixSums ==
    \A i \in DOMAIN log :
        IsReport(log[i].response) =>
            \A g \in DOMAIN log[i].response.body.groups :
                LET m == log[i].response.body.groups[g]
                    cm == m.confusion_matrix IN
                /\ DOMAIN cm = {"tn", "fp", "fn", "tp"}
                /\ \A c \in DOMAIN cm : cm[c] \in Nat
                /\ m.sample_size \in Nat /\ m.sample_size > 0
                /\ cm.tn + cm.fp + cm.fn + cm.tp = m.sample_size

\* A baseline report and a mitigated report have been served.
C10_Witness ==
    \E i, j \in DOMAIN log :
        /\ IsReport(log[i].response) /\ "recommendations" \in DOMAIN log[i].response.body
        /\ IsReport(log[j].response) /\ "improvement" \in DOMAIN log[j].response.body
        /\ log[j].response.body.scenario = "cardiovascular"

MetricNames ==
    {"statistical_parity", "equalized_odds_tpr", "equalized_odds_fpr",
     "predictive_parity"}

\* The report has the given fields, an overall_score between 0 and 100 (in
\* tenths) and exactly the four fairness metrics, none negative.
ConformsWith(body, fields) ==
    /\ fields \subseteq DOMAIN body
    /\ body.overall_score \in 0..1000
    /\ DOMAIN body.metrics = MetricNames
    /\ \A m \in MetricNames : body.metrics[m] >= 0

\* C11: every report answered with status 200 by /analyze or /mitigate
\* carries the fields scenario, title, description, overall_score (between 0
\* and 100), groups, metrics (exactly the four names, each value >= 0) and
\* flags.
C11_ReportConforms ==
    \A i \in DOMAIN log :
        (/\ log[i].request.route \in {"analyze", "mitigate"}
         /\ log[i].response.status = 200)
        => ConformsWith(log[i].response.body,
                        {"scenario", "title", "description", "overall_score",
                         "groups", "metrics", "flags"})

\* The values of one per-group rate over the groups of a report, and the
\* difference between the largest and the smallest of a set of numbers.
Rates(body, rate) == {body.groups[g][rate] : g \in DOMAIN body.groups}
Gap(S) ==
    (CHOOSE x \in S : \A y \in S : x >= y)
    - (CHOOSE x \in S : \A y \in S : x <= y)

\* C12: in every report served, each fairness metric equals, in hundredths,
\* the largest minus the smallest value of its per-group rate:
\* statistical_parity of accuracy, equalized_odds_tpr of tpr,
\* equalized_odds_fpr of fpr, predictive_parity of precision.
C12_MetricsAreGaps ==
    \A i \in DOMAIN log :
        IsReport(log[i].response) =>
            LET body == log[i].response.body IN
            /\ body.metrics.statistical_parity = Gap(Rates(body, "accuracy"))
            /\ body.metrics.equalized_odds_tpr = Gap(Rates(body, "tpr"))
            /\ body.metrics.equalized_odds_fpr = Gap(Rates(body, "fpr"))
            /\ body.metrics.predictive_parity = Gap(Rates(body, "precision"))

\* The baseline report of cardiovascular, whose four metrics differ, and the
\* mitigated report of pain have been served.
C12_Witness ==
    /\ Len(log) = 2
    /\ log[1].request.route = "analyze" /\ IsReport(log[1].response)
    /\ log[1].response.body.scenario = "cardiovascular"
    /\ log[1].response.body.metrics.equalized_odds_tpr
         # log[1].response.body.metrics.equalized_odds_fpr
    /\ log[2].request.route = "mitigate" /\ IsReport(log[2].response)
    /\ log[2].response.body.scenario = "pain"

====
